---- MODULE Spec2Model ----
(***************************************************************************)
(* Model of blog-mocking: app.ts (LISTENER_CONFIG, init), effects.ts       *)
(* (aliceEffect, bobEffect) and the window the listeners are attached to.  *)
(*                                                                         *)
(* The window is the DOM EventTarget the code calls: addEventListener      *)
(* appends a listener unless one with the same type and callback is        *)
(* already in the list, and dispatchEvent runs the listeners of the        *)
(* event's type in the order of the list.                                  *)
(***************************************************************************)
EXTENDS Integers, Sequences, FiniteSets, TLC

\* ------------------------------------------------------------------ bounds
MaxHandlers == 2      \* longest handler array of an enumerated configuration
MaxKeys == 2          \* most keys of an enumerated configuration
MaxInits == 2         \* init calls in one behaviour
MaxEvents == 1        \* events dispatched in one behaviour of Spec
MaxTestEvents == 4    \* events dispatched in one behaviour of SpecInitTest

\* ------------------------------------------------------------ handlers
EffectHandlers == {"aliceEffect", "bobEffect"}
StubHandlers == {"stubA", "stubB", "stubC", "stubD"}
Handlers == EffectHandlers \cup StubHandlers
NoHandler == "none"

\* tHandler | tHandler[] : a lone handler or an array of handlers
Single(h) == [isArray |-> FALSE, item |-> h, items |-> <<>>]
Many(hs) == [isArray |-> TRUE, item |-> NoHandler, items |-> hs]

\* lodash castArray: an array passes through, anything else is wrapped
castArrayDropsSingle(v) == v.items
castArrayWrapsEmpty(v) == IF v.isArray /\ v.items # <<>> THEN v.items ELSE <<v.item>>
castArray(v) == IF v.isArray THEN v.items ELSE <<v.item>>

\* tConfig: the own enumerable string keys in insertion order
Entry(e, v) == [event |-> e, handlers |-> v]

\* the configuration before bobEffect was added to it
LISTENER_CONFIG_AliceOnly ==
    << Entry("foo_event", Single("aliceEffect")) >>
LISTENER_CONFIG ==
    << Entry("foo_event", Many(<<"aliceEffect", "bobEffect">>)),
       Entry("bar_event", Single("bobEffect")) >>

\* the configuration of the "init" test
TestConfig ==
    << Entry("zim", Single("stubC")),
       Entry("gir", Many(<<"stubC", "stubB">>)),
       Entry("dib", Many(<<"stubC", "stubB", "stubA">>)),
       Entry("gaz", Many(<<>>)) >>

ObjectEntries(cfg) == [i \in 1..Len(cfg) |-> <<cfg[i].event, cfg[i].handlers>>]

Keys(cfg) == {cfg[i].event : i \in 1..Len(cfg)}

\* ----------------------------------------------- enumerated configurations
ConfigTypes == {"foo_event", "bar_event"}
EventTypes == ConfigTypes \cup {"quux"}
TestEventTypes == {"zim", "gir", "dib", "gaz", "quux"}

SeqsUpTo(S, n) == UNION {[1..k -> S] : k \in 0..n}

Values == {Single(h) : h \in EffectHandlers}
          \cup {Many(hs) : hs \in SeqsUpTo(EffectHandlers, MaxHandlers)}

Configs ==
    {cfg \in UNION {[1..k -> [event : ConfigTypes, handlers : Values]] : k \in 0..MaxKeys} :
        \A i, j \in 1..Len(cfg) : i # j => cfg[i].event # cfg[j].event}

\* ------------------------------------------------------------------ state
VARIABLES
    config,      \* the configuration object the caller passes to init
    listenerConfig, \* the module's object LISTENER_CONFIG as it is now
    listeners,   \* the window's event listener list
    initCalls,   \* one record per init call, in call order
    raised,      \* the events dispatched so far, in order
    calls,       \* every handler invocation: the handler and its argument
    debugLog     \* the arguments of the console.debug calls, in order

vars == <<config, listenerConfig, listeners, initCalls, raised, calls, debugLog>>

\* ------------------------------------------------------------- the window
Listener(type, callback) == [type |-> type, callback |-> callback]

\* EventTarget.addEventListener (capture is false on every call of init)
addEventListenerNoDedup(list, type, callback) ==
    Append(list, Listener(type, callback))
addEventListenerReplace(list, type, callback) ==
    Append(SelectSeq(list, LAMBDA l : l.type # type), Listener(type, callback))
addEventListener(list, type, callback) ==
    IF \E i \in 1..Len(list) : list[i] = Listener(type, callback)
    THEN list
    ELSE Append(list, Listener(type, callback))

\* the listeners on the window are reached at the target, or by bubbling
ReachesTargetOnly(e) == e.target = "window"
Reaches(e) == e.target = "window" \/ e.bubbles

NewEvent(type, bubbles, target) ==
    [type |-> type, bubbles |-> bubbles, target |-> target, id |-> Len(raised) + 1]

\* the listeners the window runs for e, in list order
NotifiedAnyType(list, e) ==
    IF Reaches(e) THEN list ELSE <<>>
NotifiedFirstOnly(list, e) ==
    LET ls == IF Reaches(e) THEN SelectSeq(list, LAMBDA l : l.type = e.type) ELSE <<>>
    IN  IF ls = <<>> THEN ls ELSE <<Head(ls)>>
Notified(list, e) ==
    IF Reaches(e) THEN SelectSeq(list, LAMBDA l : l.type = e.type) ELSE <<>>

\* ------------------------------------------------------------ effects.ts
aliceEffect(e) == <<"foo_event in aliceEffect()">>
bobEffectOfEvent(e) == <<e.type \o " in bobEffect()">>
bobEffect(e) == <<"bar_event in bobEffect()">>

\* what one invocation of handler h passes to console.debug
Effect(h, e) ==
    CASE h = "aliceEffect" -> aliceEffect(e)
      [] h = "bobEffect" -> bobEffect(e)
      [] OTHER -> <<>>

\* a handler a caller may pass that throws when it is invoked
ThrowingHandlers == {"stubThrows"}

\* One invocation of handler h with event e: what it logs, the event as the
\* handler leaves it, whether it stopped the propagation, whether it threw.
\* No handler of effects.ts reads or writes its argument.
HandlerRunAliceStops(h, e) ==
    [log |-> Effect(h, e), event |-> e,
     stopped |-> h = "aliceEffect", threw |-> h \in ThrowingHandlers]
HandlerRun(h, e) ==
    [log |-> Effect(h, e), event |-> e,
     stopped |-> FALSE, threw |-> h \in ThrowingHandlers]

\* The window runs the callbacks of ls in list order with the one event
\* object; a callback that throws is reported and the next one still runs; a
\* callback that stops the propagation ends the run.
RECURSIVE RunListeners(_, _)
RunListenersHaltOnThrow(ls, e) ==
    IF ls = <<>> THEN <<>>
    ELSE LET h == Head(ls).callback
             r == HandlerRun(h, e)
         IN  <<[handler |-> h, event |-> e, log |-> r.log]>>
             \o (IF r.stopped \/ r.threw THEN <<>> ELSE RunListeners(Tail(ls), r.event))
RunListeners(ls, e) ==
    IF ls = <<>> THEN <<>>
    ELSE LET h == Head(ls).callback
             r == HandlerRun(h, e)
         IN  <<[handler |-> h, event |-> e, log |-> r.log]>>
             \o (IF r.stopped THEN <<>> ELSE RunListeners(Tail(ls), r.event))

\* the console.debug arguments of a run, in order
RECURSIVE Logged(_)
Logged(runs) ==
    IF runs = <<>> THEN <<>> ELSE Head(runs).log \o Logged(Tail(runs))

\* ----------------------------------------------------------------- app.ts
\* The loops of init run on the window's listener list and on the record of
\* the addEventListener calls issued so far by this init.
Registered(w, event, handler) ==
    [listeners |-> addEventListener(w.listeners, event, handler),
     regs |-> Append(w.regs, Listener(event, handler))]

\* the inner loop of init: for (const handler of castArray(handlers))
RECURSIVE RegisterHandlers(_, _, _)
RegisterHandlersFirstOnly(w, event, hs) ==
    IF hs = <<>> THEN w ELSE Registered(w, event, Head(hs))
RegisterHandlersReversed(w, event, hs) ==
    IF hs = <<>> THEN w
    ELSE Registered(RegisterHandlers(w, event, Tail(hs)), event, Head(hs))
RegisterHandlers(w, event, hs) ==
    IF hs = <<>> THEN w
    ELSE RegisterHandlers(Registered(w, event, Head(hs)), event, Tail(hs))

\* the outer loop of init: for (const [event, handlers] of Object.entries(config))
RECURSIVE RegisterEntries(_, _)
RegisterEntries(w, entries) ==
    IF entries = <<>> THEN w
    ELSE RegisterEntries(
            RegisterHandlers(w, Head(entries)[1], castArray(Head(entries)[2])),
            Tail(entries))

\* the window after init(cfg), and the addEventListener calls init issued
InitResult(list, cfg) ==
    RegisterEntries([listeners |-> list, regs |-> <<>>], ObjectEntries(cfg))

\* the default parameter of init: config: tConfig = LISTENER_CONFIG
ConfigParameterAlwaysDefault(given, arg) == LISTENER_CONFIG
ConfigParameter(given, arg) == IF given THEN arg ELSE listenerConfig

\* init(config: tConfig = LISTENER_CONFIG)
initCallingHandlers(given, arg) ==
    LET cfg == ConfigParameter(given, arg)
        w == InitResult(listeners, cfg)
        noEvent == [type |-> "undefined", bubbles |-> FALSE, target |-> "undefined", id |-> 0]
    IN  /\ Len(initCalls) < MaxInits
        /\ listeners' = w.listeners
        /\ initCalls' = Append(initCalls,
               [given |-> given,
                config |-> cfg,
                regs |-> w.regs,
                nEvents |-> Len(raised),
                returned |-> "undefined"])
        /\ calls' = calls \o [i \in DOMAIN w.regs |->
                                  [handler |-> w.regs[i].callback, event |-> noEvent]]
        /\ UNCHANGED <<config, listenerConfig, raised, debugLog>>
initReplayingEvents(given, arg) ==
    LET cfg == ConfigParameter(given, arg)
        w == InitResult(listeners, cfg)
        replay[n \in 0..Len(raised)] ==
            IF n = 0 THEN <<>>
            ELSE replay[n - 1] \o RunListeners(Notified(w.regs, raised[n]), raised[n])
        runs == replay[Len(raised)]
    IN  /\ Len(initCalls) < MaxInits
        /\ listeners' = w.listeners
        /\ initCalls' = Append(initCalls,
               [given |-> given,
                config |-> cfg,
                regs |-> w.regs,
                nEvents |-> Len(raised),
                returned |-> "undefined"])
        /\ calls' = calls \o [i \in 1..Len(runs) |->
                                  [handler |-> runs[i].handler, event |-> runs[i].event]]
        /\ debugLog' = debugLog \o Logged(runs)
        /\ UNCHANGED <<config, listenerConfig, raised>>
initConsumingConfig(given, arg) ==
    LET cfg == ConfigParameter(given, arg)
        w == InitResult(listeners, cfg)
    IN  /\ Len(initCalls) < MaxInits
        /\ listeners' = w.listeners
        /\ initCalls' = Append(initCalls,
               [given |-> given,
                config |-> cfg,
                regs |-> w.regs,
                nEvents |-> Len(raised),
                returned |-> "undefined"])
        /\ config' = IF given THEN <<>> ELSE config
        /\ listenerConfig' = IF given THEN listenerConfig ELSE <<>>
        /\ UNCHANGED <<raised, calls, debugLog>>
init(given, arg) ==
    LET cfg == ConfigParameter(given, arg)
        w == InitResult(listeners, cfg)
    IN  /\ Len(initCalls) < MaxInits
        /\ listeners' = w.listeners
        /\ initCalls' = Append(initCalls,
               [given |-> given,
                config |-> cfg,
                regs |-> w.regs,
                nEvents |-> Len(raised),
                returned |-> "undefined"])
        /\ UNCHANGED <<config, listenerConfig, raised, calls, debugLog>>

InitExplicit == init(TRUE, config)
InitDefault == init(FALSE, <<>>)

\* target.dispatchEvent(new Event(type, { bubbles }))
dispatchEventOnce(target, type, bubbles) ==
    LET e == NewEvent(type, bubbles, target)
        runs == RunListeners(Notified(listeners, e), e)
    IN  /\ raised' = Append(raised, e)
        /\ calls' = calls \o [i \in 1..Len(runs) |->
                                  [handler |-> runs[i].handler, event |-> runs[i].event]]
        /\ debugLog' = debugLog \o Logged(runs)
        /\ listeners' = SelectSeq(listeners,
                                  LAMBDA l : \A i \in 1..Len(runs) : runs[i].handler # l.callback
                                                                     \/ l.type # e.type)
        /\ UNCHANGED <<config, listenerConfig, initCalls>>
dispatchEvent(target, type, bubbles) ==
    LET e == NewEvent(type, bubbles, target)
        runs == RunListeners(Notified(listeners, e), e)
    IN  /\ raised' = Append(raised, e)
        /\ calls' = calls \o [i \in 1..Len(runs) |->
                                  [handler |-> runs[i].handler, event |-> runs[i].event]]
        /\ debugLog' = debugLog \o Logged(runs)
        /\ UNCHANGED <<config, listenerConfig, listeners, initCalls>>

\* document.body.dispatchEvent(new Event(eventType, { bubbles: true }))
Raise ==
    /\ Len(raised) < MaxEvents
    /\ \E t \in EventTypes : dispatchEvent("body", t, TRUE)

RaiseTest ==
    /\ Len(raised) < MaxTestEvents
    /\ \E t \in TestEventTypes : dispatchEvent("body", t, TRUE)

\* an event dispatched on the window or on document.body, bubbling or not
Targets == {"window", "body"}

RaiseAnywhere ==
    /\ Len(raised) < MaxEvents
    /\ \E t \in EventTypes, target \in Targets, b \in BOOLEAN :
           dispatchEvent(target, t, b)

\* -------------------------------------------- init, one call at a time
\* the value of returned while init is still executing
NotReturned == "running"

\* an init call is executing: its frame is on the caller's stack
Running == initCalls # <<>> /\ initCalls[Len(initCalls)].returned = NotReturned

\* The caller is one thread of JavaScript and makes its next call when the
\* call it is in has returned; init is a plain function, with no await and
\* no yield at which it could be left before its last statement.
IdleAlways == TRUE
Idle == ~Running

\* the addEventListener calls the two loops of init make, in order: for each
\* entry, one call per handler of castArray(handlers)
RECURSIVE CallsOfEntries(_)
CallsOfEntries(entries) ==
    IF entries = <<>> THEN <<>>
    ELSE LET hs == castArray(Head(entries)[2])
         IN  [j \in DOMAIN hs |-> Listener(Head(entries)[1], hs[j])]
             \o CallsOfEntries(Tail(entries))

RegistrationCalls(cfg) == CallsOfEntries(ObjectEntries(cfg))

\* init is entered and its parameter bound; no registration call made yet.
\* before is the window's list as init finds it, todo the iterations of the
\* loops still to run.
initEnter(given, arg) ==
    /\ Idle
    /\ Len(initCalls) < MaxInits
    /\ initCalls' = Append(initCalls,
           [given |-> given,
            config |-> ConfigParameter(given, arg),
            regs |-> <<>>,
            nEvents |-> Len(raised),
            before |-> listeners,
            todo |-> RegistrationCalls(ConfigParameter(given, arg)),
            returned |-> NotReturned])
    /\ UNCHANGED <<config, listenerConfig, listeners, raised, calls, debugLog>>

InitEnterExplicit == initEnter(TRUE, config)
InitEnterDefault == initEnter(FALSE, <<>>)

\* the next iteration of the loops: one window.addEventListener(event, handler)
InitRegister ==
    /\ Running
    /\ LET k == Len(initCalls)
           todo == initCalls[k].todo
       IN  /\ todo # <<>>
           /\ LET w == Registered([listeners |-> listeners, regs |-> initCalls[k].regs],
                                  Head(todo).type, Head(todo).callback)
              IN  /\ listeners' = w.listeners
                  /\ initCalls' = [initCalls EXCEPT ![k].regs = w.regs,
                                                    ![k].todo = Tail(todo)]
    /\ UNCHANGED <<config, listenerConfig, raised, calls, debugLog>>

\* both loops are exhausted: init returns undefined
InitReturn ==
    /\ Running
    /\ LET k == Len(initCalls)
       IN  /\ initCalls[k].todo = <<>>
           /\ initCalls' = [initCalls EXCEPT ![k].returned = "undefined"]
    /\ UNCHANGED <<config, listenerConfig, listeners, raised, calls, debugLog>>

\* the caller dispatches an event: a statement of its own, not one of init
RaiseIdle == Idle /\ Raise

\* --------------------------------------------------------- specifications
Fresh ==
    /\ listenerConfig = LISTENER_CONFIG
    /\ listeners = <<>>
    /\ initCalls = <<>>
    /\ raised = <<>>
    /\ calls = <<>>
    /\ debugLog = <<>>

Init == config \in Configs /\ Fresh

Next == InitExplicit \/ InitDefault \/ Raise

Spec == Init /\ [][Next]_vars

\* the "init" test's configuration, with any events of the test's types
InitTest == config = TestConfig /\ Fresh

NextTest == InitExplicit \/ RaiseTest

SpecInitTest == InitTest /\ [][NextTest]_vars

\* one-key configurations, with events dispatched on either target
OneKeyConfigs == {<<Entry(t, v)>> : t \in ConfigTypes, v \in Values}

InitBubble == config \in OneKeyConfigs /\ Fresh

NextBubble == InitExplicit \/ InitDefault \/ RaiseAnywhere

SpecBubble == InitBubble /\ [][NextBubble]_vars

\* one-key configurations that may list a handler that throws
ThrowValues ==
    {Single(h) : h \in EffectHandlers \cup ThrowingHandlers}
      \cup {Many(hs) : hs \in SeqsUpTo(EffectHandlers \cup ThrowingHandlers, MaxHandlers)}

ThrowConfigs == {<<Entry(t, v)>> : t \in ConfigTypes, v \in ThrowValues}

InitThrow == config \in ThrowConfigs /\ Fresh

SpecThrow == InitThrow /\ [][Next]_vars

\* init executed one addEventListener call at a time, for the empty
\* configuration, the "init" test's and the default one; the thread that is
\* in init keeps executing it
StepConfigs == {<<>>, TestConfig} \cup OneKeyConfigs

InitSteps == config \in StepConfigs /\ Fresh

NextSteps ==
    InitEnterExplicit \/ InitEnterDefault \/ InitRegister \/ InitReturn \/ RaiseIdle

SpecSteps ==
    InitSteps /\ [][NextSteps]_vars /\ WF_vars(InitRegister) /\ WF_vars(InitReturn)

\* ------------------------------------------------- vocabulary of the claims
Range(s) == {s[i] : i \in DOMAIN s}

\* the handler sequence a configuration value stands for
Normalized(v) == IF v.isArray THEN v.items ELSE <<v.item>>

\* handler h is listed under key t of cfg
Listed(cfg, t, h) ==
    \E i \in DOMAIN cfg : cfg[i].event = t /\ h \in Range(Normalized(cfg[i].handlers))

\* the init calls that had returned when e was dispatched
InitsBefore(e) == {k \in DOMAIN initCalls : initCalls[k].nEvents < e.id}

\* how often handler h was invoked with event e
Invocations(h, e) ==
    Cardinality({i \in DOMAIN calls : calls[i].handler = h /\ calls[i].event = e})

\* how often handler h was invoked at all
TotalInvocations(h) == Cardinality({i \in DOMAIN calls : calls[i].handler = h})

\* every init call that returned before e was passed cfg, and there is one
OnlyInitsOf(cfg, e) ==
    /\ InitsBefore(e) # {}
    /\ \A k \in InitsBefore(e) : initCalls[k].config = cfg

\* ------------------------------------------------------------------ claims

\* C1: once init(C) has returned on a target that carries C's registrations
\* only, an event of a type T that is a key of C invokes every handler listed
\* under T at least once, and no handler of C that is listed only under
\* other keys.
C1_HandlersOfTypeInvoked ==
    \A e \in Range(raised) : \A k \in InitsBefore(e) :
        LET C == initCalls[k].config
        IN  (Reaches(e) /\ e.type \in Keys(C)) =>
                /\ \A h \in Handlers : Listed(C, e.type, h) => Invocations(h, e) >= 1
                /\ OnlyInitsOf(C, e) =>
                       \A h \in Handlers, t \in Keys(C) :
                           (Listed(C, t, h) /\ ~Listed(C, e.type, h)) => Invocations(h, e) = 0

C1_Witness ==
    /\ Len(initCalls) = 1
    /\ Len(initCalls[1].config) = 2
    /\ \E e \in Range(raised) :
          /\ OnlyInitsOf(initCalls[1].config, e)
          /\ e.type \in Keys(initCalls[1].config)
          /\ Invocations("aliceEffect", e) = 1
          /\ Invocations("bobEffect", e) = 0
          /\ \E t \in Keys(initCalls[1].config) : Listed(initCalls[1].config, t, "bobEffect")

\* C2: every init call issues one addEventListener call per position of a
\* handler in the normalized sequence of each key of its configuration and
\* no other call, every one of them has taken effect on the window when init
\* has returned, and init returns undefined.
C2_OneRegistrationPerPair ==
    \A k \in DOMAIN initCalls :
        LET C == initCalls[k].config
            regs == initCalls[k].regs
            Positions == UNION {{<<i, j>> : j \in 1..Len(Normalized(C[i].handlers))} :
                                   i \in DOMAIN C}
        IN  /\ Len(regs) = Cardinality(Positions)
            /\ \A p \in Positions :
                   Listener(C[p[1]].event, Normalized(C[p[1]].handlers)[p[2]]) \in Range(regs)
            /\ \A r \in Range(regs) :
                   Cardinality({i \in DOMAIN regs : regs[i] = r})
                     = Cardinality({p \in Positions :
                           /\ C[p[1]].event = r.type
                           /\ Normalized(C[p[1]].handlers)[p[2]] = r.callback})
            /\ Range(regs) \subseteq Range(listeners)
            /\ initCalls[k].returned = "undefined"

C2_Witness ==
    \E k \in DOMAIN initCalls :
        /\ Len(initCalls[k].config) = 2
        /\ Len(initCalls[k].regs) = 3
        /\ \E i \in DOMAIN initCalls[k].config : ~initCalls[k].config[i].handlers.isArray
        /\ Cardinality(Range(initCalls[k].regs)) = 2

IsPrefix(s, t) == Len(s) <= Len(t) /\ \A i \in DOMAIN s : t[i] = s[i]

\* the addEventListener calls of the init call a step makes, if it makes one
NewRegs == IF Len(initCalls') > Len(initCalls) THEN initCalls'[Len(initCalls')].regs ELSE <<>>

\* C3 as stated: no listener is removed or replaced, and every registration
\* call adds a listener, also for a pair that is already registered.
C3_Original ==
    [][/\ IsPrefix(listeners, listeners')
       /\ Len(listeners') = Len(listeners) + Len(NewRegs)]_vars

\* C3 as amended: no listener is removed or replaced, every pair init
\* registers is on the window afterwards, and a pair that is already
\* registered is not added again: the list holds each pair at most once.
C3_AppendOnlyDeduplicated ==
    [][/\ IsPrefix(listeners, listeners')
       /\ Range(listeners') = Range(listeners) \cup Range(NewRegs)
       /\ Cardinality(Range(listeners')) = Len(listeners')]_vars

\* a second init call registered a pair again, one call repeated a pair
C3_Witness ==
    /\ Len(initCalls) = 2
    /\ Range(initCalls[1].regs) \cap Range(initCalls[2].regs) # {}
    /\ Cardinality(Range(initCalls[2].regs)) < Len(initCalls[2].regs)
    /\ Len(listeners) < Len(initCalls[1].regs) + Len(initCalls[2].regs)

\* exactly two init calls, with the same configuration, returned before e
TwiceBefore(e) ==
    /\ Cardinality(InitsBefore(e)) = 2
    /\ \A j, k \in InitsBefore(e) : initCalls[j].config = initCalls[k].config

\* C4 as stated: after two init calls with one configuration, an event of a
\* configured type invokes each handler listed under the type twice.
C4_Original ==
    \A e \in Range(raised) :
        (Reaches(e) /\ TwiceBefore(e)) =>
            \A h \in Handlers :
                Listed(initCalls[1].config, e.type, h) => Invocations(h, e) = 2

\* C4 as amended: after two init calls with one configuration, an event of a
\* configured type invokes each handler listed under the type once.
C4_InvokedOnceAfterTwoInits ==
    \A e \in Range(raised) :
        (Reaches(e) /\ TwiceBefore(e)) =>
            \A h \in Handlers :
                Listed(initCalls[1].config, e.type, h) => Invocations(h, e) = 1

C4_Witness ==
    \E e \in Range(raised) :
        /\ Reaches(e)
        /\ TwiceBefore(e)
        /\ initCalls[1].given /\ initCalls[2].given
        /\ \E h \in Handlers :
              Listed(initCalls[1].config, e.type, h) /\ Invocations(h, e) = 1

\* C5: once init() has been called with the default configuration, however
\* often, a foo_event invokes aliceEffect once and bobEffect once, each with
\* the event that was dispatched.
C5_DefaultHandlersOncePerEvent ==
    \A e \in Range(raised) :
        (/\ Reaches(e)
         /\ e.type = "foo_event"
         /\ \E k \in InitsBefore(e) : ~initCalls[k].given) =>
            \A h \in {"aliceEffect", "bobEffect"} :
                /\ Invocations(h, e) = 1
                /\ Cardinality({i \in DOMAIN calls :
                       calls[i].handler = h /\ calls[i].event.id = e.id}) = 1

C5_Witness ==
    \E e \in Range(raised) :
        /\ e.type = "foo_event"
        /\ Cardinality({k \in InitsBefore(e) : ~initCalls[k].given}) = 2
        /\ Invocations("aliceEffect", e) = 1
        /\ Invocations("bobEffect", e) = 1

\* C6: on equal targets, init of {T: h} and init of {T: [h]} issue the same
\* addEventListener calls and leave the same listener list, so that every
\* event notifies the same listeners afterwards.
C6_SingleEqualsOneElementArray ==
    \A t \in EventTypes : \A h \in EffectHandlers :
        LET single == InitResult(listeners, <<Entry(t, Single(h))>>)
            array == InitResult(listeners, <<Entry(t, Many(<<h>>))>>)
        IN  /\ single = array
            /\ single.regs = <<Listener(t, h)>>
            /\ Listener(t, h) \in Range(single.listeners)
            /\ \A u \in EventTypes :
                   LET e == NewEvent(u, TRUE, "body")
                   IN  /\ Notified(single.listeners, e) = Notified(array.listeners, e)
                       /\ u = t => Listener(t, h) \in Range(Notified(single.listeners, e))

\* init was called on a fresh target with a lone handler under one key
C6_Witness ==
    /\ Len(initCalls) = 1
    /\ Len(initCalls[1].config) = 1
    /\ ~initCalls[1].config[1].handlers.isArray
    /\ listeners = InitResult(<<>>, <<Entry(initCalls[1].config[1].event,
                        Many(<<initCalls[1].config[1].handlers.item>>))>>).listeners
    /\ calls # <<>>

\* every init call so far was passed a configuration that maps t to []
OnlyEmptyFor(t) ==
    /\ initCalls # <<>>
    /\ \A k \in DOMAIN initCalls :
          \E i \in DOMAIN initCalls[k].config :
              /\ initCalls[k].config[i].event = t
              /\ initCalls[k].config[i].handlers = Many(<<>>)

\* C7: init issues no registration call for a key that is mapped to the
\* empty sequence; when no other configuration was registered, the window
\* has no listener of that type and an event of that type invokes no handler.
C7_EmptySequenceRegistersNothing ==
    /\ \A k \in DOMAIN initCalls : \A i \in DOMAIN initCalls[k].config :
           initCalls[k].config[i].handlers = Many(<<>>) =>
               \A r \in Range(initCalls[k].regs) : r.type # initCalls[k].config[i].event
    /\ \A t \in EventTypes \cup TestEventTypes :
           OnlyEmptyFor(t) =>
               /\ \A l \in Range(listeners) : l.type # t
               /\ \A i \in DOMAIN calls : calls[i].event.type # t

C7_Witness ==
    \E e \in Range(raised) :
        /\ OnlyEmptyFor(e.type)
        /\ InitsBefore(e) # {}
        /\ listeners # <<>>

\* C8: after init(C) on a fresh target, an event whose type is not a key of
\* C invokes no handler.
C8_AbsentTypeInvokesNothing ==
    \A e \in Range(raised) : \A k \in InitsBefore(e) :
        (/\ OnlyInitsOf(initCalls[k].config, e)
         /\ e.type \notin Keys(initCalls[k].config)) =>
            \A i \in DOMAIN calls : calls[i].event # e

C8_Witness ==
    \E e \in Range(raised) :
        /\ Reaches(e)
        /\ OnlyInitsOf(initCalls[1].config, e)
        /\ e.type \notin Keys(initCalls[1].config)
        /\ listeners # <<>>

\* the types of the events handler h was invoked with
TypesSeenBy(h) == {calls[i].event.type : i \in {j \in DOMAIN calls : calls[j].handler = h}}

\* C9: after one init(C) on a fresh target, each handler h has been invoked
\* once for each event raised whose type lists h in C, with that event; with
\* the test's configuration and the events zim, dib, gaz and quux, stubA is
\* invoked once (dib), stubB once (dib), stubC twice (zim, dib), stubD never.
C9_InvocationsMatchRaisedEvents ==
    (Len(initCalls) = 1 /\ initCalls[1].nEvents = 0) =>
        LET C == initCalls[1].config
        IN  /\ \A h \in Handlers :
                  /\ TotalInvocations(h) =
                        Cardinality({i \in DOMAIN raised : Listed(C, raised[i].type, h)})
                  /\ \A i \in DOMAIN calls :
                        calls[i].handler = h =>
                            /\ calls[i].event \in Range(raised)
                            /\ Listed(C, calls[i].event.type, h)
            /\ (C = TestConfig
                /\ Len(raised) = 4
                /\ {raised[i].type : i \in DOMAIN raised} = {"zim", "dib", "gaz", "quux"}) =>
                   /\ TotalInvocations("stubA") = 1 /\ TypesSeenBy("stubA") = {"dib"}
                   /\ TotalInvocations("stubB") = 1 /\ TypesSeenBy("stubB") = {"dib"}
                   /\ TotalInvocations("stubC") = 2 /\ TypesSeenBy("stubC") = {"zim", "dib"}
                   /\ TotalInvocations("stubD") = 0

C9_Witness ==
    /\ Len(initCalls) = 1
    /\ initCalls[1].nEvents = 0
    /\ initCalls[1].config = TestConfig
    /\ [i \in DOMAIN raised |-> raised[i].type] = <<"zim", "dib", "gaz", "quux">>
    /\ TotalInvocations("stubC") = 2

\* C10: with the default configuration registered, raising one foo_event
\* makes two console.debug calls, one with "foo_event in aliceEffect()" and
\* one with "bar_event in bobEffect()".
C10_FooEventLogsTwoLiterals ==
    (/\ Len(raised) = 1
     /\ raised[1].type = "foo_event"
     /\ Reaches(raised[1])
     /\ OnlyInitsOf(LISTENER_CONFIG, raised[1])) =>
        /\ Len(debugLog) = 2
        /\ Range(debugLog) = {"foo_event in aliceEffect()", "bar_event in bobEffect()"}

C10_Witness ==
    /\ Len(raised) = 1
    /\ raised[1].type = "foo_event"
    /\ OnlyInitsOf(LISTENER_CONFIG, raised[1])
    /\ ~initCalls[1].given
    /\ debugLog = <<"foo_event in aliceEffect()", "bar_event in bobEffect()">>

\* one event of type t was raised, on a window that carried the default
\* configuration's registrations and no others
OneEventAfterDefaultInit(t) ==
    /\ Len(raised) = 1
    /\ raised[1].type = t
    /\ Reaches(raised[1])
    /\ OnlyInitsOf(LISTENER_CONFIG, raised[1])

\* C11: after init() with the default configuration, one foo_event makes two
\* console.debug calls, one with "foo_event in aliceEffect()" and one with
\* "foo_event in bobEffect()".
C11_FooEventLogsFooLiterals ==
    OneEventAfterDefaultInit("foo_event") =>
        /\ Len(debugLog) = 2
        /\ Range(debugLog) = {"foo_event in aliceEffect()", "foo_event in bobEffect()"}

\* C12: after init() with the default configuration, one bar_event makes one
\* console.debug call, with "bar_event in bobEffect()", and does not invoke
\* aliceEffect.
C12_BarEventLogsOnce ==
    OneEventAfterDefaultInit("bar_event") =>
        /\ debugLog = <<"bar_event in bobEffect()">>
        /\ TotalInvocations("aliceEffect") = 0
        /\ TotalInvocations("bobEffect") = 1

C12_Witness ==
    /\ OneEventAfterDefaultInit("bar_event")
    /\ ~initCalls[1].given
    /\ [i \in DOMAIN calls |-> calls[i].handler] = <<"bobEffect">>
    /\ Len(listeners) = 3

\* the (eventType, handler) pairs a configuration lists
PairsOf(cfg) ==
    UNION {{Listener(cfg[i].event, Normalized(cfg[i].handlers)[j]) :
               j \in DOMAIN Normalized(cfg[i].handlers)} : i \in DOMAIN cfg}

\* C13: init() registers the built-in default configuration, aliceEffect and
\* bobEffect under foo_event and bobEffect under bar_event, and nothing else;
\* init(C) registers the pairs of C and no pair of the default configuration
\* that C does not list.
C13_DefaultOrExplicitConfiguration ==
    /\ \A k \in DOMAIN initCalls :
           IF initCalls[k].given
           THEN Range(initCalls[k].regs) = PairsOf(config)
           ELSE initCalls[k].regs = << Listener("foo_event", "aliceEffect"),
                                       Listener("foo_event", "bobEffect"),
                                       Listener("bar_event", "bobEffect") >>
    /\ (\A k \in DOMAIN initCalls : initCalls[k].given) =>
           Range(listeners) \subseteq PairsOf(config)

C13_Witness ==
    /\ Len(initCalls) = 2
    /\ initCalls[1].given
    /\ ~initCalls[2].given
    /\ Range(initCalls[1].regs) = {Listener("bar_event", "aliceEffect")}
    /\ Len(initCalls[2].regs) = 3
    /\ Len(listeners) = 4

\* the invocations of the handlers of effects.ts, in order
EffectCalls == SelectSeq(calls, LAMBDA c : c.handler \in EffectHandlers)

\* the string each handler of effects.ts is documented to log
FixedLabel(h) ==
    IF h = "aliceEffect" THEN "foo_event in aliceEffect()" ELSE "bar_event in bobEffect()"

\* C14: whatever the event, one invocation of aliceEffect makes one
\* console.debug call with "foo_event in aliceEffect()" and one invocation of
\* bobEffect makes one with "bar_event in bobEffect()".
C14_LogIndependentOfEvent ==
    /\ Len(debugLog) = Len(EffectCalls)
    /\ \A i \in DOMAIN EffectCalls : debugLog[i] = FixedLabel(EffectCalls[i].handler)
    /\ \A t \in EventTypes \cup TestEventTypes : \A b \in BOOLEAN :
       \A target \in {"window", "body"} :
           /\ aliceEffect(NewEvent(t, b, target)) = <<"foo_event in aliceEffect()">>
           /\ bobEffect(NewEvent(t, b, target)) = <<"bar_event in bobEffect()">>

\* aliceEffect ran for a bar_event, or bobEffect for a foo_event
C14_Witness ==
    \E i \in DOMAIN EffectCalls :
        /\ EffectCalls[i].handler = "bobEffect"
        /\ EffectCalls[i].event.type = "foo_event"
        /\ debugLog[i] = "bar_event in bobEffect()"
        /\ Len(debugLog) = 1

\* the pair (t, h) was registered by an init call that returned before e
RegisteredBefore(t, h, e) ==
    \E k \in InitsBefore(e) : Listener(t, h) \in Range(initCalls[k].regs)

\* C15: every handler is invoked with the event that was dispatched, as it
\* was dispatched; aliceEffect neither changes the event nor stops it, so
\* that bobEffect, registered for the same event, is invoked with it too.
C15_EventPassedUnchanged ==
    /\ \A i \in DOMAIN calls :
           /\ calls[i].event.id \in DOMAIN raised
           /\ calls[i].event = raised[calls[i].event.id]
    /\ \A e \in Range(raised) :
           (/\ Reaches(e)
            /\ Invocations("aliceEffect", e) >= 1
            /\ RegisteredBefore(e.type, "bobEffect", e)) =>
               Invocations("bobEffect", e) = 1

\* aliceEffect ran first and bobEffect second, with the one event
C15_Witness ==
    /\ Len(raised) = 1
    /\ raised[1].type = "foo_event"
    /\ calls = << [handler |-> "aliceEffect", event |-> raised[1]],
                  [handler |-> "bobEffect", event |-> raised[1]] >>

\* the handlers init registered for event type t in its k-th call, in call order
RegisteredFor(k, t) ==
    LET sub == SelectSeq(initCalls[k].regs, LAMBDA r : r.type = t)
    IN  [j \in DOMAIN sub |-> sub[j].callback]

\* C16: within one key, init issues the registration calls in the order of
\* the handler sequence, all of them for that key's event type.
C16_RegistrationInSequenceOrder ==
    \A k \in DOMAIN initCalls : \A i \in DOMAIN initCalls[k].config :
        RegisteredFor(k, initCalls[k].config[i].event)
            = Normalized(initCalls[k].config[i].handlers)

C16_Witness ==
    \E k \in DOMAIN initCalls :
        /\ initCalls[k].given
        /\ Len(initCalls[k].config) = 2
        /\ RegisteredFor(k, "bar_event") = <<"bobEffect", "aliceEffect">>
        /\ RegisteredFor(k, "foo_event") = <<"aliceEffect", "bobEffect">>

Occurrences(x, s) == Cardinality({i \in DOMAIN s : s[i] = x})

SameMultiset(s, t) ==
    /\ Len(s) = Len(t)
    /\ \A x \in Range(s) \cup Range(t) : Occurrences(x, s) = Occurrences(x, t)

Perms(n) == {p \in [1..n -> 1..n] : \A i, j \in 1..n : i # j => p[i] # p[j]}

PermuteSeq(s, p) == [i \in DOMAIN s |-> s[p[i]]]

PermuteValue(v, p) == IF v.isArray THEN Many(PermuteSeq(v.items, p)) ELSE v

\* the configurations that have the keys of c in some order and, under each
\* key, the handlers of c in some order
ConfigPermutations(c) ==
    LET lens == [i \in DOMAIN c |-> Len(Normalized(c[i].handlers))]
        any == UNION {Perms(lens[i]) : i \in DOMAIN c}
        hps == {f \in [DOMAIN c -> any] : \A i \in DOMAIN c : f[i] \in Perms(lens[i])}
    IN  {[i \in DOMAIN c |->
             Entry(c[kp[i]].event, PermuteValue(c[kp[i]].handlers, hp[kp[i]]))] :
             kp \in Perms(Len(c)), hp \in hps}

\* the handlers an event of type t invokes on a window with listener list l
InvokedOn(l, t) ==
    LET e == NewEvent(t, TRUE, "body")
        runs == RunListeners(Notified(l, e), e)
    IN  [i \in DOMAIN runs |-> runs[i].handler]

\* C17: on equal targets, init of a configuration and init of any
\* permutation of it (keys reordered, handlers reordered within a key) make
\* every event invoke the same handlers the same number of times. Dispatch
\* leaves the listener list alone, so the lists reached before any event are
\* all the lists there are.
C17_PermutationInvariant ==
    raised = <<>> =>
        \A d \in ConfigPermutations(config) : \A t \in EventTypes :
            SameMultiset(InvokedOn(InitResult(listeners, config).listeners, t),
                         InvokedOn(InitResult(listeners, d).listeners, t))

\* init ran on a fresh window with a configuration that has a permutation
\* which attaches the listeners in another order
C17_Witness ==
    /\ raised = <<>>
    /\ Len(initCalls) = 1
    /\ initCalls[1].given
    /\ Len(config) = 2
    /\ \E d \in ConfigPermutations(config) :
          /\ InitResult(<<>>, d).listeners # listeners
          /\ InvokedOn(InitResult(<<>>, d).listeners, "foo_event") # InvokedOn(listeners, "foo_event")
          /\ SameMultiset(InvokedOn(InitResult(<<>>, d).listeners, "foo_event"),
                          InvokedOn(listeners, "foo_event"))

\* C18: init registers on the window and on no other target: a handler
\* registered for the type of an event is invoked when the event is
\* dispatched on the window, or on document.body with bubbles: true, and no
\* handler is invoked by an event dispatched on document.body that does not
\* bubble, as a listener on document.body would be.
C18_RegisteredOnWindowOnly ==
    \A e \in Range(raised) :
        /\ \A h \in EffectHandlers :
               RegisteredBefore(e.type, h, e) =>
                   /\ (e.target = "body" /\ e.bubbles) => Invocations(h, e) = 1
                   /\ e.target = "window" => Invocations(h, e) = 1
        /\ (e.target = "body" /\ ~e.bubbles) =>
               \A i \in DOMAIN calls : calls[i].event.id # e.id

C18_Witness ==
    \E e \in Range(raised) :
        /\ e.target = "body"
        /\ e.bubbles
        /\ initCalls # <<>>
        /\ initCalls[1].given
        /\ RegisteredBefore(e.type, "aliceEffect", e)
        /\ Invocations("aliceEffect", e) = 1

\* C19: a handler that throws does not keep the other handlers registered
\* for the event's type from being invoked for that event, and it is itself
\* invoked once for the event, not again.
C19_ThrowIsolatedPerListener ==
    \A e \in Range(raised) :
        (/\ Reaches(e)
         /\ \E h \in ThrowingHandlers : RegisteredBefore(e.type, h, e)) =>
            \A h \in EffectHandlers \cup ThrowingHandlers :
                RegisteredBefore(e.type, h, e) => Invocations(h, e) = 1

\* the throwing handler ran first and aliceEffect after it, for the one event
C19_Witness ==
    /\ Len(raised) = 1
    /\ calls = << [handler |-> "stubThrows", event |-> raised[1]],
                  [handler |-> "aliceEffect", event |-> raised[1]] >>
    /\ debugLog = <<"foo_event in aliceEffect()">>

\* C20: init invokes no handler: a step that makes an init call leaves the
\* record of invocations and the console alone, no handler has run while no
\* event has been raised, and the only steps that invoke handlers are the
\* dispatches, which invoke them with the event dispatched.
C20_InitInvokesNoHandler ==
    [][/\ Len(initCalls') > Len(initCalls) => (calls' = calls /\ debugLog' = debugLog)
       /\ raised' = <<>> => (calls' = <<>> /\ debugLog' = <<>>)
       /\ calls' # calls =>
              /\ Len(raised') = Len(raised) + 1
              /\ \A i \in (Len(calls) + 1)..Len(calls') :
                     calls'[i].event = raised'[Len(raised')]]_vars

\* two init calls have registered listeners and no handler has run
C20_Witness ==
    /\ Len(initCalls) = 2
    /\ Len(listeners) >= 3
    /\ raised = <<>>
    /\ calls = <<>>
    /\ debugLog = <<>>

\* the init call entered last
LastInit == initCalls[Len(initCalls)]

\* the init call entered last has returned undefined, having made the calls
\* and left the window as the two loops do when they run undisturbed from
\* the listener list init found
Returned ==
    /\ initCalls # <<>>
    /\ LastInit.returned = "undefined"
    /\ LET w == InitResult(LastInit.before, LastInit.config)
       IN  /\ LastInit.regs = w.regs
           /\ listeners = w.listeners

\* C21: an init call that has been entered makes its registration calls one
\* after the other and returns: while it executes, every step is its next
\* addEventListener call or its return, no event is dispatched, no handler
\* runs and no other init call is entered; whenever no init call executes,
\* the last one has made the calls and left the window as the loops do when
\* nothing disturbs them; and a call that executes does return.
C21_InitRunsToCompletion ==
    /\ [][Running =>
            /\ raised' = raised
            /\ calls' = calls
            /\ debugLog' = debugLog
            /\ Len(initCalls') = Len(initCalls)
            /\ SubSeq(initCalls', 1, Len(initCalls) - 1) = SubSeq(initCalls, 1, Len(initCalls) - 1)
            /\ \/ /\ LastInit'.returned = NotReturned
                  /\ Len(LastInit'.regs) = Len(LastInit.regs) + 1
                  /\ IsPrefix(LastInit'.regs, RegistrationCalls(LastInit.config))
                  /\ LastInit'.regs[Len(LastInit'.regs)] \in Range(listeners')
               \/ /\ LastInit' = [LastInit EXCEPT !.returned = "undefined"]
                  /\ listeners' = listeners]_vars
    /\ []((Idle /\ initCalls # <<>>) => Returned)
    /\ (Running ~> Returned)

\* a two-key init call has returned after three registration calls, between
\* an event and another init call that is half-way through its own
C21_Witness ==
    /\ Len(initCalls) = 2
    /\ Len(raised) = 1
    /\ initCalls[1].nEvents = 1
    /\ initCalls[1].returned = "undefined"
    /\ Len(initCalls[1].config) = 2
    /\ Len(initCalls[1].regs) = 3
    /\ Running
    /\ Len(initCalls[2].regs) = 1
    /\ Len(RegistrationCalls(initCalls[2].config)) > 1

\* C22: init leaves the configuration it is passed as it was, keys and
\* handlers in their order, and the default configuration stays what the
\* module defines however often init() is called, so that all init() calls
\* issue the same registration calls, and all init(C) calls too.
C22_ConfigurationsUnchanged ==
    /\ listenerConfig = LISTENER_CONFIG
    /\ \A k \in DOMAIN initCalls :
           IF initCalls[k].given
           THEN initCalls[k].config = config
           ELSE initCalls[k].config = LISTENER_CONFIG
    /\ \A j, k \in DOMAIN initCalls :
           initCalls[j].given = initCalls[k].given => initCalls[j].regs = initCalls[k].regs

\* init() was called twice, before and after an event, while the caller
\* holds a configuration of its own
C22_Witness ==
    /\ Len(initCalls) = 2
    /\ ~initCalls[1].given
    /\ ~initCalls[2].given
    /\ initCalls[1].nEvents < initCalls[2].nEvents
    /\ Len(initCalls[2].regs) = 3
    /\ Len(config) = 2

\* C23: a handler is invoked only with an event that was dispatched after an
\* init call had registered the handler for the event's type; an event that
\* was dispatched before any init call invokes no handler, neither when it
\* is dispatched nor when init registers handlers for its type afterwards.
C23_NoReplayOfEarlierEvents ==
    /\ \A i \in DOMAIN calls :
           RegisteredBefore(calls[i].event.type, calls[i].handler, calls[i].event)
    /\ \A e \in Range(raised) :
           InitsBefore(e) = {} => \A i \in DOMAIN calls : calls[i].event # e

\* a bubbling foo_event was dispatched on document.body, then init()
\* registered aliceEffect and bobEffect for foo_event, and neither has run
C23_Witness ==
    /\ Len(raised) = 1
    /\ raised[1].type = "foo_event"
    /\ raised[1].target = "body"
    /\ raised[1].bubbles
    /\ Len(initCalls) = 1
    /\ ~initCalls[1].given
    /\ initCalls[1].nEvents = 1
    /\ Listener("foo_event", "aliceEffect") \in Range(listeners)
    /\ calls = <<>>
    /\ debugLog = <<>>

\* the events of type t dispatched after the first init call had returned
RaisedAfterInit(t) ==
    {i \in DOMAIN raised : raised[i].type = t /\ i > initCalls[1].nEvents}

\* how often handler h was invoked with an event of type t
InvocationsOfType(h, t) ==
    Cardinality({i \in DOMAIN calls : calls[i].handler = h /\ calls[i].event.type = t})

\* C24: no step takes an (eventType, handler) pair off the window, whether
\* it is an init call or a dispatch; and after one init(C) on a fresh
\* window, each handler listed under a key T of C has been invoked once for
\* every event of type T dispatched since, the first and the later ones.
C24_RegistrationsPermanent ==
    /\ [][Range(listeners) \subseteq Range(listeners')]_vars
    /\ [](Len(initCalls) = 1 =>
              \A t \in Keys(initCalls[1].config) : \A h \in Handlers :
                  Listed(initCalls[1].config, t, h) =>
                      /\ InvocationsOfType(h, t) = Cardinality(RaisedAfterInit(t))
                      /\ \A i \in RaisedAfterInit(t) : Invocations(h, raised[i]) = 1)

\* after one init call, three dib events and a zim event were dispatched, and
\* stubA has run three times
C24_Witness ==
    /\ Len(initCalls) = 1
    /\ initCalls[1].nEvents = 0
    /\ [i \in DOMAIN raised |-> raised[i].type] = <<"dib", "dib", "zim", "dib">>
    /\ InvocationsOfType("stubA", "dib") = 3
    /\ InvocationsOfType("stubC", "dib") = 3
    /\ InvocationsOfType("stubC", "zim") = 1
    /\ Len(listeners) = 6

====
